---- MODULE Spec2Model ----
(***************************************************************************)
(* A model of OptTree (src/src/tree/opt_tree.rs): an arena of optional     *)
(* node slots addressed by NodeId, where every node carries five links     *)
(* (parent, first_child, last_child, prev_sibling, next_sibling).          *)
(*                                                                         *)
(* Option<X> is modelled as a set with at most one element: None is {} and *)
(* Some(x) is {x}.  A NodeId is its slot index (0-based, as in the Vec).   *)
(***************************************************************************)
EXTENDS Integers, Sequences, FiniteSets, TLC

\* The largest number of slots the arena grows to in the model.
MaxNodes == 3

\* The payloads callers store (the tests store 1 and overwrite it with 6).
DataVals == {1, 6}

\* The handles a caller may pass: every slot index the arena can reach, and
\* MaxNodes itself, which is out of range in every state.
NodeIds == 0..MaxNodes

None == {}

Some(x) == {x}

Unwrap(o) == CHOOSE x \in o : TRUE

VARIABLES
    nodes,      \* core_tree.nodes: slot index -> Option<OptNode>
    free_ids,   \* core_tree.free_ids: stack of reusable slot indices
    root,       \* core_tree.root: Option<NodeId>
    call,       \* the last public call: its operation, arguments and result
    pre,        \* the tree as it was when the last public call started
    run,        \* the current run of successful inserts under one parent
    iter        \* the Ancestors iterator, when one is alive

vars == <<nodes, free_ids, root, call, pre, run, iter>>

\* The tree as one value: what an operation reads and what it returns.
Tree == [nodes |-> nodes, free_ids |-> free_ids, root |-> root]

\* Node::new(data): a node with its payload and no structural links.
NewNode(d) ==
    [data |-> d, parent |-> None, first_child |-> None, last_child |-> None,
     prev_sibling |-> None, next_sibling |-> None]

\* Vec::len of the slot table.
NodesLen(ns) == Cardinality(DOMAIN ns)

\* The occupied slots.
Occupied(ns) == {i \in DOMAIN ns : ns[i] # None}

\* CoreTree::validate_node_id: the index is in range and the slot is occupied.
validate_node_id(t, id) == id \in DOMAIN t.nodes /\ t.nodes[id] # None

\* CoreTree::insert: reuse the most recently freed slot if there is one, else
\* push a new slot; returns the tree and the new NodeId.
core_insert(t, node) ==
    IF Len(t.free_ids) > 0
    THEN LET id == t.free_ids[Len(t.free_ids)]
         IN  [tree |-> [t EXCEPT !.nodes = [t.nodes EXCEPT ![id] = Some(node)],
                                 !.free_ids = SubSeq(t.free_ids, 1, Len(t.free_ids) - 1)],
              id |-> id]
    ELSE LET id == NodesLen(t.nodes)
         IN  [tree |-> [t EXCEPT !.nodes = [i \in 0..id |->
                                    IF i = id THEN Some(node) ELSE t.nodes[i]]],
              id |-> id]

\* CoreTree::set_root: store the node and make it the root.
core_set_root(t, node) ==
    LET r == core_insert(t, node)
    IN  [tree |-> [r.tree EXCEPT !.root = Some(r.id)], id |-> r.id]

\* What get_unchecked / get_unchecked_mut do with a NodeId: "ok" when the slot
\* is occupied, "panic" when the slot is empty (the expect fires), "ub" when the
\* index is out of range (Vec::get_unchecked is undefined there).
unchecked(t, id) ==
    IF id \notin DOMAIN t.nodes THEN "ub"
    ELSE IF t.nodes[id] = None THEN "panic"
    ELSE "ok"

\* The node behind an occupied slot.
NodeAt(t, id) == Unwrap(t.nodes[id])

\* get_unchecked_mut(id) followed by one setter call.
SetLink(t, id, field, v) ==
    [t EXCEPT !.nodes[id] = Some([NodeAt(t, id) EXCEPT ![field] = v])]

\* The children of a node as the code's links give them: the walk along
\* next_sibling from `cur`, cut off after `fuel` steps.
RECURSIVE Walk(_, _, _)
Walk(ns, cur, fuel) ==
    IF cur = None \/ fuel = 0 THEN <<>>
    ELSE LET id == Unwrap(cur)
         IN  IF id \notin DOMAIN ns \/ ns[id] = None THEN <<id>>
             ELSE <<id>> \o Walk(ns, Unwrap(ns[id]).next_sibling, fuel - 1)

\* The walk along prev_sibling from `cur`.
RECURSIVE WalkBack(_, _, _)
WalkBack(ns, cur, fuel) ==
    IF cur = None \/ fuel = 0 THEN <<>>
    ELSE LET id == Unwrap(cur)
         IN  IF id \notin DOMAIN ns \/ ns[id] = None THEN <<id>>
             ELSE <<id>> \o WalkBack(ns, Unwrap(ns[id]).prev_sibling, fuel - 1)

\* The child sequence of occupied node p: next_sibling from p.first_child.
ChildSeq(ns, p) == Walk(ns, Unwrap(ns[p]).first_child, NodesLen(ns) + 1)

\* The outcome of a call: the tree it leaves, its result and its return value.
Outcome(t, res, ret) == [tree |-> t, res |-> res, ret |-> ret]

\* insert_under_node without the former last child's set_next_sibling call.
insert_under_node_no_next(t, node, parent_id) ==
    LET a      == core_insert(t, [node EXCEPT !.parent = Some(parent_id)])
        t1     == a.tree
        new_id == a.id
        last   == NodeAt(t1, parent_id).last_child
    IN  IF last # None
        THEN LET t2 == SetLink(t1, parent_id, "last_child", Some(new_id))
             IN  Outcome(SetLink(t2, new_id, "prev_sibling", last),
                         "Ok", Some(new_id))
        ELSE LET t2 == SetLink(t1, parent_id, "first_child", Some(new_id))
             IN  Outcome(SetLink(t2, parent_id, "last_child", Some(new_id)),
                         "Ok", Some(new_id))

\* insert_under_node without the node.set_parent call.
insert_under_node_no_parent(t, node, parent_id) ==
    LET a      == core_insert(t, node)
        t1     == a.tree
        new_id == a.id
        last   == NodeAt(t1, parent_id).last_child
    IN  IF last # None
        THEN LET t2 == SetLink(t1, parent_id, "last_child", Some(new_id))
                 t3 == SetLink(t2, new_id, "prev_sibling", last)
             IN  Outcome(SetLink(t3, Unwrap(last), "next_sibling", Some(new_id)),
                         "Ok", Some(new_id))
        ELSE LET t2 == SetLink(t1, parent_id, "first_child", Some(new_id))
             IN  Outcome(SetLink(t2, parent_id, "last_child", Some(new_id)),
                         "Ok", Some(new_id))

\* insert_under_node whose childless arm leaves out set_last_child.
insert_under_node_first_only(t, node, parent_id) ==
    LET a      == core_insert(t, [node EXCEPT !.parent = Some(parent_id)])
        t1     == a.tree
        new_id == a.id
        first  == NodeAt(t1, parent_id).first_child
        last   == NodeAt(t1, parent_id).last_child
    IN  CASE first # None /\ last # None ->
               LET t2 == SetLink(t1, parent_id, "last_child", Some(new_id))
                   t3 == SetLink(t2, new_id, "prev_sibling", last)
               IN  Outcome(SetLink(t3, Unwrap(last), "next_sibling", Some(new_id)),
                           "Ok", Some(new_id))
          [] first = None /\ last = None ->
               Outcome(SetLink(t1, parent_id, "first_child", Some(new_id)),
                       "Ok", Some(new_id))
          [] OTHER -> Outcome(t1, "panic", None)

\* insert_under_node without the new node's set_prev_sibling call.
insert_under_node_no_prev(t, node, parent_id) ==
    LET a      == core_insert(t, [node EXCEPT !.parent = Some(parent_id)])
        t1     == a.tree
        new_id == a.id
        last   == NodeAt(t1, parent_id).last_child
    IN  IF last # None
        THEN LET t2 == SetLink(t1, parent_id, "last_child", Some(new_id))
             IN  Outcome(SetLink(t2, Unwrap(last), "next_sibling", Some(new_id)),
                         "Ok", Some(new_id))
        ELSE LET t2 == SetLink(t1, parent_id, "first_child", Some(new_id))
             IN  Outcome(SetLink(t2, parent_id, "last_child", Some(new_id)),
                         "Ok", Some(new_id))

\* insert_under_node linking the slot after the one core_tree.insert returned.
insert_under_node_off_by_one(t, node, parent_id) ==
    LET a      == core_insert(t, [node EXCEPT !.parent = Some(parent_id)])
        t1     == a.tree
        new_id == a.id + 1
        last   == NodeAt(t1, parent_id).last_child
    IN  IF last # None
        THEN LET t2 == SetLink(t1, parent_id, "last_child", Some(new_id))
                 t3 == SetLink(t2, a.id, "prev_sibling", last)
             IN  Outcome(SetLink(t3, Unwrap(last), "next_sibling", Some(new_id)),
                         "Ok", Some(a.id))
        ELSE LET t2 == SetLink(t1, parent_id, "first_child", Some(new_id))
             IN  Outcome(SetLink(t2, parent_id, "last_child", Some(new_id)),
                         "Ok", Some(a.id))

\* insert_under_node whose arm for a parent with children also calls
\* set_first_child, as the childless arm does.
insert_under_node_sets_first(t, node, parent_id) ==
    LET a      == core_insert(t, [node EXCEPT !.parent = Some(parent_id)])
        t1     == a.tree
        new_id == a.id
        last   == NodeAt(t1, parent_id).last_child
        t2     == SetLink(t1, parent_id, "first_child", Some(new_id))
        t3     == SetLink(t2, parent_id, "last_child", Some(new_id))
    IN  IF last # None
        THEN LET t4 == SetLink(t3, new_id, "prev_sibling", last)
             IN  Outcome(SetLink(t4, Unwrap(last), "next_sibling", Some(new_id)),
                         "Ok", Some(new_id))
        ELSE Outcome(t3, "Ok", Some(new_id))

\* insert_under_node returning parent_id instead of new_id.
insert_under_node_returns_parent(t, node, parent_id) ==
    LET a      == core_insert(t, [node EXCEPT !.parent = Some(parent_id)])
        t1     == a.tree
        new_id == a.id
        last   == NodeAt(t1, parent_id).last_child
    IN  IF last # None
        THEN LET t2 == SetLink(t1, parent_id, "last_child", Some(new_id))
                 t3 == SetLink(t2, new_id, "prev_sibling", last)
             IN  Outcome(SetLink(t3, Unwrap(last), "next_sibling", Some(new_id)),
                         "Ok", Some(parent_id))
        ELSE LET t2 == SetLink(t1, parent_id, "first_child", Some(new_id))
             IN  Outcome(SetLink(t2, parent_id, "last_child", Some(new_id)),
                         "Ok", Some(parent_id))

\* OptTree::insert_under_node.
insert_under_node(t, node, parent_id) ==
    LET a      == core_insert(t, [node EXCEPT !.parent = Some(parent_id)])
        t1     == a.tree
        new_id == a.id
    IN  IF unchecked(t1, parent_id) # "ok"
        THEN Outcome(t1, unchecked(t1, parent_id), None)
        ELSE
        LET first == NodeAt(t1, parent_id).first_child
            last  == NodeAt(t1, parent_id).last_child
        IN  CASE first # None /\ last # None ->
                   LET last_id == Unwrap(last)
                       t2 == SetLink(t1, parent_id, "last_child", Some(new_id))
                       t3 == SetLink(t2, new_id, "prev_sibling", Some(last_id))
                   IN  IF unchecked(t3, last_id) # "ok"
                       THEN Outcome(t3, unchecked(t3, last_id), None)
                       ELSE Outcome(SetLink(t3, last_id, "next_sibling", Some(new_id)),
                                    "Ok", Some(new_id))
              [] first # None /\ last = None -> Outcome(t1, "panic", None)
              [] first = None /\ last # None -> Outcome(t1, "panic", None)
              [] OTHER ->
                   LET t2 == SetLink(t1, parent_id, "first_child", Some(new_id))
                   IN  Outcome(SetLink(t2, parent_id, "last_child", Some(new_id)),
                               "Ok", Some(new_id))

\* set_root without the former root's set_parent call.
set_root_keeps_parent(t, new_root) ==
    LET a == core_set_root(t, new_root)
    IN  IF t.root = None THEN Outcome(a.tree, "Ok", Some(a.id))
        ELSE LET t2 == SetLink(a.tree, a.id, "first_child", t.root)
             IN  Outcome(SetLink(t2, a.id, "last_child", t.root), "Ok", Some(a.id))

\* set_root without the new root's set_last_child call.
set_root_no_last(t, new_root) ==
    LET a == core_set_root(t, new_root)
    IN  IF t.root = None THEN Outcome(a.tree, "Ok", Some(a.id))
        ELSE LET t2 == SetLink(a.tree, Unwrap(t.root), "parent", Some(a.id))
             IN  Outcome(SetLink(t2, a.id, "first_child", t.root), "Ok", Some(a.id))

\* set_root reading current_root after core_tree.set_root has replaced it.
set_root_reads_late(t, new_root) ==
    LET a  == core_set_root(t, new_root)
        t2 == SetLink(a.tree, a.id, "parent", Some(a.id))
        t3 == SetLink(t2, a.id, "first_child", Some(a.id))
    IN  Outcome(SetLink(t3, a.id, "last_child", Some(a.id)), "Ok", Some(a.id))

\* OptTree::set_root.
set_root(t, new_root) ==
    LET current_root == t.root
        a            == core_set_root(t, new_root)
        t1           == a.tree
        new_root_id  == a.id
    IN  IF current_root = None THEN Outcome(t1, "Ok", Some(new_root_id))
        ELSE
        LET current_root_id == Unwrap(current_root)
        IN  IF unchecked(t1, current_root_id) # "ok"
            THEN Outcome(t1, unchecked(t1, current_root_id), None)
            ELSE
            LET t2 == SetLink(t1, current_root_id, "parent", Some(new_root_id))
                t3 == SetLink(t2, new_root_id, "first_child", Some(current_root_id))
            IN  Outcome(SetLink(t3, new_root_id, "last_child", Some(current_root_id)),
                        "Ok", Some(new_root_id))

\* InsertBehavior: AsRoot, or UnderNode(parent_id).
AsRoot == [kind |-> "AsRoot", id |-> None]

UnderNode(p) == [kind |-> "UnderNode", id |-> Some(p)]

\* insert without the validate_node_id call.
insert_unvalidated(t, node, behavior) ==
    IF behavior.kind = "UnderNode"
    THEN insert_under_node(t, node, Unwrap(behavior.id))
    ELSE set_root(t, node)

\* OptTree::insert.
insert(t, node, behavior) ==
    IF behavior.kind = "UnderNode"
    THEN IF ~validate_node_id(t, Unwrap(behavior.id))
         THEN Outcome(t, "HandleInvalid", None)
         ELSE insert_under_node(t, node, Unwrap(behavior.id))
    ELSE set_root(t, node)

\* OptTree::get: CoreTree::get validates the NodeId and borrows the node.
get(t, node_id) ==
    IF ~validate_node_id(t, node_id)
    THEN Outcome(t, "HandleInvalid", None)
    ELSE Outcome(t, "Ok", Some(NodeAt(t, node_id)))

\* get_mut whose write replaces the whole node by a fresh one holding `d`.
get_mut_fresh_node(t, node_id, d) ==
    IF ~validate_node_id(t, node_id)
    THEN Outcome(t, "HandleInvalid", None)
    ELSE Outcome([t EXCEPT !.nodes[node_id] = Some(NewNode(d))], "Ok", None)

\* OptTree::get_mut followed by a write of `d` through data_mut().
get_mut(t, node_id, d) ==
    IF ~validate_node_id(t, node_id)
    THEN Outcome(t, "HandleInvalid", None)
    ELSE Outcome(SetLink(t, node_id, "data", d), "Ok", None)

\* The body unimplemented!(): the call panics and the tree is not touched.
unimplemented(t) == Outcome(t, "panic", None)

\* ancestors without the validate_node_id call.
ancestors_unvalidated(t, node_id) == Outcome(t, "Ok", Some(node_id))

\* OptTree::ancestors: validate, then build the iterator at node_id.
ancestors(t, node_id) ==
    IF ~validate_node_id(t, node_id)
    THEN Outcome(t, "HandleInvalid", None)
    ELSE Outcome(t, "Ok", Some(node_id))

\* One step of a call that concerns a handle: "validate" (validate_node_id
\* accepted it), "allocate" (core_tree.insert / set_root returned it), "load"
\* (it was read from the root pointer or from a link of a node) or "unchecked"
\* (it was passed to get_unchecked / get_unchecked_mut).
Event(kind, id) == [kind |-> kind, id |-> id]

\* The handle steps of insert_under_node, in program order.
insert_under_node_events(t, node, parent_id) ==
    LET a      == core_insert(t, [node EXCEPT !.parent = Some(parent_id)])
        t1     == a.tree
        new_id == a.id
    IN  <<Event("allocate", new_id), Event("unchecked", parent_id)>> \o
        IF unchecked(t1, parent_id) # "ok" THEN <<>>
        ELSE
        LET first == NodeAt(t1, parent_id).first_child
            last  == NodeAt(t1, parent_id).last_child
        IN  CASE first # None /\ last # None ->
                   <<Event("load", Unwrap(last)),
                     Event("unchecked", parent_id),
                     Event("unchecked", new_id),
                     Event("unchecked", Unwrap(last))>>
              [] first # None /\ last = None -> <<>>
              [] first = None /\ last # None -> <<>>
              [] OTHER -> <<Event("unchecked", parent_id)>>

\* The handle steps of set_root, in program order.
set_root_events(t, new_root) ==
    LET a == core_set_root(t, new_root)
    IN  IF t.root = None THEN <<Event("allocate", a.id)>>
        ELSE <<Event("load", Unwrap(t.root)),
               Event("allocate", a.id),
               Event("unchecked", Unwrap(t.root)),
               Event("unchecked", a.id)>>

\* The handle steps of insert with the validate_node_id call left out.
insert_events_unvalidated(t, node, behavior) ==
    IF behavior.kind = "UnderNode"
    THEN insert_under_node_events(t, node, Unwrap(behavior.id))
    ELSE set_root_events(t, node)

\* The handle steps of insert, in program order.
insert_events(t, node, behavior) ==
    IF behavior.kind = "UnderNode"
    THEN IF ~validate_node_id(t, Unwrap(behavior.id)) THEN <<>>
         ELSE <<Event("validate", Unwrap(behavior.id))>>
              \o insert_under_node_events(t, node, Unwrap(behavior.id))
    ELSE set_root_events(t, node)

\* The handle steps of get, get_mut and ancestors: the validation alone.
validated_events(t, node_id) ==
    IF validate_node_id(t, node_id) THEN <<Event("validate", node_id)>> ELSE <<>>

\* ---------------------------------------------------------------- actions

\* No run of inserts under one parent is in progress.
NoRun == [parent |-> None, base |-> <<>>, added |-> <<>>]

\* No Ancestors iterator is alive.
NoIter == [state |-> "idle", node_id |-> None, out |-> <<>>]

\* A panic ends the process: nothing is called after it.
Running == call.res \notin {"panic", "ub"}

\* What an undefined access may turn into: a trap, or a run that goes on
\* over memory outside the slot table ("ub").
Results(res) == IF res = "ub" THEN {"panic", "ub"} ELSE {res}

\* A public call returns outcome r: the tree becomes r.tree, and the call
\* and the tree it started from are recorded.
Return(op, id, id2, d, behavior, r, newrun, newiter) ==
    /\ nodes' = r.tree.nodes
    /\ free_ids' = r.tree.free_ids
    /\ root' = r.tree.root
    /\ pre' = Tree
    /\ \E res \in Results(r.res) :
          call' = [op |-> op, id |-> id, id2 |-> id2, data |-> d,
                   behavior |-> behavior, res |-> res, ret |-> r.ret]
    /\ run' = newrun
    /\ iter' = newiter

\* OptTree::new.
Init ==
    /\ nodes = [i \in {} |-> None]
    /\ free_ids = <<>>
    /\ root = None
    /\ pre = [nodes |-> [i \in {} |-> None], free_ids |-> <<>>, root |-> None]
    /\ call = [op |-> "new", id |-> None, id2 |-> None, data |-> None,
               behavior |-> "-", res |-> "Ok", ret |-> None]
    /\ run = NoRun
    /\ iter = NoIter

\* insert(Node::new(d), AsRoot).
InsertAsRoot(d) ==
    /\ Running
    /\ NodesLen(nodes) < MaxNodes
    /\ Return("insert", None, None, Some(d), "AsRoot",
              insert(Tree, NewNode(d), AsRoot), NoRun, NoIter)

\* The run of inserts under p after one more of them returned r.
NextRun(p, r) ==
    IF r.res # "Ok" THEN run
    ELSE IF run.parent = Some(p)
         THEN [run EXCEPT !.added = Append(run.added, Unwrap(r.ret))]
         ELSE [parent |-> Some(p),
               base |-> IF validate_node_id(Tree, p) THEN ChildSeq(nodes, p)
                        ELSE <<>>,
               added |-> <<Unwrap(r.ret)>>]

\* insert(Node::new(d), UnderNode(p)), for any handle p.
InsertUnderNode(d, p) ==
    /\ Running
    /\ validate_node_id(Tree, p) => NodesLen(nodes) < MaxNodes
    /\ LET r == insert(Tree, NewNode(d), UnderNode(p))
       IN  Return("insert", Some(p), None, Some(d), "UnderNode", r,
                  NextRun(p, r), NoIter)

\* get(id).
Get(id) ==
    /\ Running
    /\ Return("get", Some(id), None, None, "-", get(Tree, id), run, NoIter)

\* get_mut(id), and a write of d through the borrow.
GetMut(id, d) ==
    /\ Running
    /\ LET r == get_mut(Tree, id, d)
       IN  Return("get_mut", Some(id), None, Some(d), "-", r,
                  IF r.res = "Ok" THEN NoRun ELSE run, NoIter)

\* root_node_id().
RootNodeId ==
    /\ Running
    /\ Return("root_node_id", None, None, None, "-", Outcome(Tree, "Ok", root),
              run, NoIter)

\* ancestors(id): on success the iterator starts at id.
Ancestors(id) ==
    /\ Running
    /\ LET r == ancestors(Tree, id)
       IN  Return("ancestors", Some(id), None, None, "-", r, run,
                  IF r.res = "Ok"
                  THEN [state |-> "active", node_id |-> r.ret, out |-> <<>>]
                  ELSE NoIter)

\* Ancestors::next: yield the current node and step to its parent; report the
\* end once there is no current node, and fail on a handle that no longer
\* resolves.
AncestorsNext ==
    /\ Running
    /\ iter.state = "active"
    /\ Len(iter.out) <= MaxNodes
    /\ iter' = IF iter.node_id = None
               THEN [iter EXCEPT !.state = "done"]
               ELSE LET id == Unwrap(iter.node_id)
                    IN  IF ~validate_node_id(Tree, id)
                        THEN [iter EXCEPT !.state = "HandleInvalid"]
                        ELSE [iter EXCEPT !.out = Append(iter.out, id),
                                          !.node_id = NodeAt(Tree, id).parent]
    /\ UNCHANGED <<nodes, free_ids, root, call, pre, run>>

\* The operations whose body is unimplemented!().
RemoveBehaviors == {"DropSubtree", "LiftChildrenToParent"}

SwapBehaviors == {"SwapDataOnly", "SwapSubtrees"}

Height ==
    /\ Running
    /\ Return("height", None, None, None, "-", unimplemented(Tree), run, NoIter)

Remove(id, b) ==
    /\ Running
    /\ Return("remove", Some(id), None, None, b, unimplemented(Tree), run, NoIter)

MoveNode(id, dest) ==
    /\ Running
    /\ Return("move_node", Some(id), Some(dest), None, "ToParent",
              unimplemented(Tree), run, NoIter)

SortChildrenBy(id) ==
    /\ Running
    /\ Return("sort_children_by", Some(id), None, None, "-",
              unimplemented(Tree), run, NoIter)

SortChildrenByData(id) ==
    /\ Running
    /\ Return("sort_children_by_data", Some(id), None, None, "-",
              unimplemented(Tree), run, NoIter)

SortChildrenByKey(id) ==
    /\ Running
    /\ Return("sort_children_by_key", Some(id), None, None, "-",
              unimplemented(Tree), run, NoIter)

SwapNodes(a, b, behavior) ==
    /\ Running
    /\ Return("swap_nodes", Some(a), Some(b), None, behavior,
              unimplemented(Tree), run, NoIter)

AncestorIds(id) ==
    /\ Running
    /\ Return("ancestor_ids", Some(id), None, None, "-",
              unimplemented(Tree), run, NoIter)

Children(id) ==
    /\ Running
    /\ Return("children", Some(id), None, None, "-",
              unimplemented(Tree), run, NoIter)

ChildrenIds(id) ==
    /\ Running
    /\ Return("children_ids", Some(id), None, None, "-",
              unimplemented(Tree), run, NoIter)

TraversePreOrder(id) ==
    /\ Running
    /\ Return("traverse_pre_order", Some(id), None, None, "-",
              unimplemented(Tree), run, NoIter)

TraversePostOrder(id) ==
    /\ Running
    /\ Return("traverse_post_order", Some(id), None, None, "-",
              unimplemented(Tree), run, NoIter)

TraverseLevelOrder(id) ==
    /\ Running
    /\ Return("traverse_level_order", Some(id), None, None, "-",
              unimplemented(Tree), run, NoIter)

Next ==
    \/ \E d \in DataVals : InsertAsRoot(d)
    \/ \E d \in DataVals, p \in NodeIds : InsertUnderNode(d, p)
    \/ \E id \in NodeIds : Get(id)
    \/ \E id \in NodeIds, d \in DataVals : GetMut(id, d)
    \/ RootNodeId
    \/ \E id \in NodeIds : Ancestors(id)
    \/ AncestorsNext
    \/ Height
    \/ \E id \in NodeIds, b \in RemoveBehaviors : Remove(id, b)
    \/ \E id \in NodeIds, dest \in NodeIds : MoveNode(id, dest)
    \/ \E id \in NodeIds : SortChildrenBy(id)
    \/ \E id \in NodeIds : SortChildrenByData(id)
    \/ \E id \in NodeIds : SortChildrenByKey(id)
    \/ \E a \in NodeIds, b \in NodeIds, behavior \in SwapBehaviors :
          SwapNodes(a, b, behavior)
    \/ \E id \in NodeIds : AncestorIds(id)
    \/ \E id \in NodeIds : Children(id)
    \/ \E id \in NodeIds : ChildrenIds(id)
    \/ \E id \in NodeIds : TraversePreOrder(id)
    \/ \E id \in NodeIds : TraversePostOrder(id)
    \/ \E id \in NodeIds : TraverseLevelOrder(id)

Spec == Init /\ [][Next]_vars

\* ----------------------------------------------------------------- claims

\* The last call was insert(_, UnderNode(_)).
IsInsertUnder == call.op = "insert" /\ call.behavior = "UnderNode"

\* The last call was insert(_, AsRoot).
IsInsertAsRoot == call.op = "insert" /\ call.behavior = "AsRoot"

\* The elements of a sequence.
Range(s) == {s[k] : k \in 1..Len(s)}

\* C1: successive successful inserts under one parent p, with no other
\* mutation in between, leave p's child sequence equal to its children before
\* the run followed by the returned handles in order; and the node a successful
\* insert under p returns is p.last_child, its prev_sibling is p's former last
\* child and its next_sibling is None.
InsertUnderAppendOrder ==
    /\ run.parent # None =>
          /\ validate_node_id(Tree, Unwrap(run.parent))
          /\ ChildSeq(nodes, Unwrap(run.parent)) = run.base \o run.added
    /\ (IsInsertUnder /\ call.res = "Ok") =>
          LET p == Unwrap(call.id)
              c == Unwrap(call.ret)
          IN  /\ validate_node_id(Tree, c)
              /\ NodeAt(Tree, p).last_child = Some(c)
              /\ NodeAt(Tree, c).prev_sibling = NodeAt(pre, p).last_child
              /\ NodeAt(Tree, c).next_sibling = None

\* C1 witness: two inserts in a row under the same parent both succeeded.
InsertUnderAppendOrderWitness ==
    /\ IsInsertUnder /\ call.res = "Ok"
    /\ run.parent = call.id
    /\ Len(run.added) >= 2

\* C2: insert(_, AsRoot) on a tree with root r returns n with root() = n, n
\* without parent or siblings, n.first_child = n.last_child = r, r.parent = n,
\* r without siblings, and r's child sequence and every other node as before.
AsRootWrapping ==
    (IsInsertAsRoot /\ pre.root # None) =>
        /\ call.res = "Ok"
        /\ LET r == Unwrap(pre.root)
               n == Unwrap(call.ret)
           IN  /\ root = Some(n)
               /\ validate_node_id(Tree, n)
               /\ n \notin Occupied(pre.nodes)
               /\ NodeAt(Tree, n).parent = None
               /\ NodeAt(Tree, n).first_child = Some(r)
               /\ NodeAt(Tree, n).last_child = Some(r)
               /\ NodeAt(Tree, n).prev_sibling = None
               /\ NodeAt(Tree, n).next_sibling = None
               /\ NodeAt(Tree, r).parent = Some(n)
               /\ NodeAt(Tree, r).prev_sibling = None
               /\ NodeAt(Tree, r).next_sibling = None
               /\ ChildSeq(nodes, r) = ChildSeq(pre.nodes, r)
               /\ NodeAt(Tree, r) = [NodeAt(pre, r) EXCEPT !.parent = Some(n)]
               /\ \A i \in Occupied(pre.nodes) \ {r} : nodes[i] = pre.nodes[i]

\* C2 witness: a root that has children was wrapped by a new root.
AsRootWrappingWitness ==
    /\ IsInsertAsRoot /\ call.res = "Ok"
    /\ pre.root # None
    /\ NodeAt(pre, Unwrap(pre.root)).first_child # None

\* C3: exactly one occupied node has no parent when the arena holds a node,
\* none when it is empty, and that node is the one root() names.
SingleRoot ==
    LET tops == {i \in Occupied(nodes) : NodeAt(Tree, i).parent = None}
    IN  IF Occupied(nodes) = {}
        THEN tops = {} /\ root = None
        ELSE Cardinality(tops) = 1 /\ root = tops

\* C3 witness: a full arena built with both kinds of insert (some node's
\* parent is not the root), after a rejected insert.
SingleRootWitness ==
    /\ Cardinality(Occupied(nodes)) = MaxNodes
    /\ IsInsertUnder /\ call.res = "HandleInvalid"
    /\ \E i \in Occupied(nodes) : NodeAt(Tree, i).parent \notin {None, root}

\* C4: for every occupied p, the walk along next_sibling from p.first_child
\* visits exactly the occupied nodes whose parent is p, each once, and ends at
\* p.last_child, whose next_sibling is None.
SiblingChainConsistency ==
    \A p \in Occupied(nodes) :
        LET w == ChildSeq(nodes, p)
        IN  /\ Range(w) = {c \in Occupied(nodes) : NodeAt(Tree, c).parent = Some(p)}
            /\ Cardinality(Range(w)) = Len(w)
            /\ w # <<>> =>
                  /\ NodeAt(Tree, p).last_child = Some(w[Len(w)])
                  /\ NodeAt(Tree, w[Len(w)]).next_sibling = None

\* C4 witness: a parent with two children, next to a node without children.
SiblingChainConsistencyWitness ==
    \E p \in Occupied(nodes) :
        /\ Len(ChildSeq(nodes, p)) >= 2
        /\ \E q \in Occupied(nodes) : Len(ChildSeq(nodes, q)) = 0

\* C5: insert(_, UnderNode(parent)) with a parent that does not resolve returns
\* HandleInvalid and leaves the slot table, the free list and the root as they
\* were: no slot is allocated.
FailedInsertUnchanged ==
    (IsInsertUnder /\ ~validate_node_id(pre, Unwrap(call.id))) =>
        /\ call.res = "HandleInvalid"
        /\ call.ret = None
        /\ Tree = pre

\* C5 witness: an insert under an out-of-range handle was rejected on a tree
\* that holds nodes.
FailedInsertUnchangedWitness ==
    /\ IsInsertUnder
    /\ ~validate_node_id(pre, Unwrap(call.id))
    /\ Occupied(nodes) # {}

\* C6: insert(_, AsRoot) never fails; on an empty tree the new node is root()
\* and its five links are None.
AsRootNeverFails ==
    IsInsertAsRoot =>
        /\ call.res = "Ok"
        /\ call.ret # None
        /\ validate_node_id(Tree, Unwrap(call.ret))
        /\ Occupied(pre.nodes) = {} =>
              /\ root = call.ret
              /\ NodeAt(Tree, Unwrap(call.ret)) = NewNode(Unwrap(call.data))

\* C6 witness: the first node went into the empty tree as its root.
AsRootNeverFailsWitness ==
    IsInsertAsRoot /\ Occupied(pre.nodes) = {} /\ call.res = "Ok"

\* The results the error taxonomy allows a public call to end with.
Returned == {"Ok", "HandleInvalid", "InvalidOperation"}

\* C7: every public operation runs to completion and returns a success value
\* or one of HandleInvalid / InvalidOperation; no call ends in a panic.
NoPublicCallPanics == call.res \in Returned

\* C8: once remove(h, DropSubtree) has been called with a valid handle h, the
\* slot of h is empty, its index is on the free list, and get, get_mut,
\* insert under h and ancestors reject h with HandleInvalid.
StaleHandleRejected ==
    (call.op = "remove" /\ call.behavior = "DropSubtree"
        /\ validate_node_id(pre, Unwrap(call.id))) =>
        LET h == Unwrap(call.id)
        IN  /\ call.res = "Ok"
            /\ nodes[h] = None
            /\ h \in Range(free_ids)
            /\ get(Tree, h).res = "HandleInvalid"
            /\ \A d \in DataVals :
                  /\ get_mut(Tree, h, d).res = "HandleInvalid"
                  /\ insert(Tree, NewNode(d), UnderNode(h)).res = "HandleInvalid"
            /\ ancestors(Tree, h).res = "HandleInvalid"

\* Whether following parent links from x (at most `fuel` times) meets a: x is
\* a itself or a descendant of a.
RECURSIVE InSubtree(_, _, _, _)
InSubtree(ns, a, x, fuel) ==
    IF x = a THEN TRUE
    ELSE IF fuel = 0 \/ x \notin DOMAIN ns \/ ns[x] = None THEN FALSE
    ELSE IF Unwrap(ns[x]).parent = None THEN FALSE
    ELSE InSubtree(ns, a, Unwrap(Unwrap(ns[x]).parent), fuel - 1)

\* C9: move_node(p, destination) with a valid p and a destination that is p
\* or a descendant of p returns InvalidOperation and leaves the tree unchanged.
CycleRejected ==
    (call.op = "move_node"
        /\ validate_node_id(pre, Unwrap(call.id))
        /\ validate_node_id(pre, Unwrap(call.id2))
        /\ InSubtree(pre.nodes, Unwrap(call.id), Unwrap(call.id2), MaxNodes)) =>
        /\ call.res = "InvalidOperation"
        /\ Tree = pre

\* C10: ancestors(h) fails with HandleInvalid when h does not resolve; for a
\* valid h the iterator yields h, then each node's parent in turn, never a
\* node twice and never more nodes than the tree holds, and it ends right
\* after yielding the root.
AncestorsChain ==
    call.op = "ancestors" =>
        LET h   == Unwrap(call.id)
            out == iter.out
        IN  IF ~validate_node_id(pre, h)
            THEN call.res = "HandleInvalid" /\ iter.state = "idle"
            ELSE /\ call.res = "Ok"
                 /\ iter.state \in {"active", "done"}
                 /\ Range(out) \subseteq Occupied(nodes)
                 /\ Cardinality(Range(out)) = Len(out)
                 /\ Len(out) >= 1 => out[1] = h
                 /\ \A k \in 1..(Len(out) - 1) :
                       NodeAt(Tree, out[k]).parent = Some(out[k + 1])
                 /\ iter.node_id = IF out = <<>> THEN Some(h)
                                   ELSE NodeAt(Tree, out[Len(out)]).parent
                 /\ iter.state = "done" =>
                       /\ Len(out) >= 1
                       /\ root = Some(out[Len(out)])
                       /\ NodeAt(Tree, out[Len(out)]).parent = None

\* C10 witness: the iterator started at the deepest node of a tree that is one
\* chain, yielded every node up to the root and ended.
AncestorsChainWitness ==
    /\ call.op = "ancestors"
    /\ iter.state = "done"
    /\ Len(iter.out) = MaxNodes

\* C11: new() yields a tree with no root, no slot and an empty free list; in
\* every reachable state root() is None exactly when no slot is occupied, and
\* otherwise names an occupied slot whose parent is None.
RootTracking ==
    /\ call.op = "new" =>
          /\ root = None
          /\ NodesLen(nodes) = 0
          /\ Len(free_ids) = 0
    /\ root = None <=> Occupied(nodes) = {}
    /\ root # None =>
          /\ Cardinality(root) = 1
          /\ validate_node_id(Tree, Unwrap(root))
          /\ NodeAt(Tree, Unwrap(root)).parent = None

\* C11 witness: the root is a node that was inserted last, over a former root
\* that has a child.
RootTrackingWitness ==
    /\ root = Some(MaxNodes - 1)
    /\ Cardinality(Occupied(nodes)) = MaxNodes
    /\ \E i \in Occupied(nodes) : NodeAt(Tree, i).parent \notin {None, root}

\* The tree `t` with d written into the data of node h and nothing else changed.
WithData(t, h, d) ==
    [t EXCEPT !.nodes[h] = Some([NodeAt(t, h) EXCEPT !.data = d])]

\* C12: a write of d through get_mut(h), h valid, leaves h holding d and
\* changes nothing else (the links of h, the root, every other node); get
\* returns the node as it is and never changes the tree; and the data of a
\* node changes in no step other than a get_mut of that node, so every later
\* get(h) observes the write until the next one.
GetMutDataUpdate ==
    /\ [](/\ (call.op = "get_mut" /\ validate_node_id(pre, Unwrap(call.id))) =>
               /\ call.res = "Ok"
               /\ Tree = WithData(pre, Unwrap(call.id), Unwrap(call.data))
          /\ (call.op = "get_mut" /\ ~validate_node_id(pre, Unwrap(call.id))) =>
               /\ call.res = "HandleInvalid"
               /\ Tree = pre
          /\ call.op = "get" =>
               /\ Tree = pre
               /\ IF validate_node_id(pre, Unwrap(call.id))
                  THEN /\ call.res = "Ok"
                       /\ call.ret = Some(NodeAt(Tree, Unwrap(call.id)))
                  ELSE call.res = "HandleInvalid")
    /\ [][\A h \in Occupied(nodes) :
             (h \in Occupied(nodes') /\ NodeAt(Tree, h).data # Unwrap(nodes'[h]).data)
                => (call'.op = "get_mut" /\ call'.id = Some(h)
                      /\ Some(Unwrap(nodes'[h]).data) = call'.data)]_vars

\* C12 witness: get_mut changed the data of a node that has a parent and a
\* child.
GetMutDataUpdateWitness ==
    /\ call.op = "get_mut" /\ call.res = "Ok"
    /\ NodeAt(pre, Unwrap(call.id)).data # NodeAt(Tree, Unwrap(call.id)).data
    /\ NodeAt(Tree, Unwrap(call.id)).parent # None
    /\ NodeAt(Tree, Unwrap(call.id)).first_child # None

\* Whether link `l` names an occupied node whose field `field` is None.
EndsAt(l, field) ==
    l # None =>
        /\ validate_node_id(Tree, Unwrap(l))
        /\ NodeAt(Tree, Unwrap(l))[field] = None

\* C13: for every occupied node, first_child is None exactly when last_child
\* is None, the first child's prev_sibling is None and the last child's
\* next_sibling is None; and no insert ends in the panic "Found an OptNode in
\* an invalid state.".
FirstLastPairing ==
    /\ \A p \in Occupied(nodes) :
          /\ NodeAt(Tree, p).first_child = None <=> NodeAt(Tree, p).last_child = None
          /\ EndsAt(NodeAt(Tree, p).first_child, "prev_sibling")
          /\ EndsAt(NodeAt(Tree, p).last_child, "next_sibling")
    /\ call.op = "insert" => call.res # "panic"

\* C13 witness: an insert under a parent that already had children succeeded
\* (the arm between the two panic arms was taken).
FirstLastPairingWitness ==
    /\ IsInsertUnder /\ call.res = "Ok"
    /\ NodeAt(pre, Unwrap(call.id)).first_child # None
    /\ NodeAt(pre, Unwrap(call.id)).last_child # None

\* The nodes met by following parent links from x, x first, cut off after
\* `fuel` nodes.
RECURSIVE ParentChain(_, _, _)
ParentChain(ns, x, fuel) ==
    IF fuel = 0 \/ x \notin DOMAIN ns \/ ns[x] = None THEN <<>>
    ELSE IF Unwrap(ns[x]).parent = None THEN <<x>>
    ELSE <<x>> \o ParentChain(ns, Unwrap(Unwrap(ns[x]).parent), fuel - 1)

\* C14: following parent links from any occupied node reaches the root
\* without visiting a node twice, after at most as many nodes as the tree
\* holds; and inserting a new root lengthens the parent chain of every node
\* that existed by exactly one step.
ParentChainAcyclic ==
    /\ \A x \in Occupied(nodes) :
          LET c == ParentChain(nodes, x, NodesLen(nodes) + 1)
          IN  /\ Len(c) >= 1
              /\ Len(c) <= Cardinality(Occupied(nodes))
              /\ Cardinality(Range(c)) = Len(c)
              /\ Range(c) \subseteq Occupied(nodes)
              /\ root = Some(c[Len(c)])
    /\ (IsInsertAsRoot /\ call.res = "Ok") =>
          \A x \in Occupied(pre.nodes) :
              ParentChain(nodes, x, NodesLen(nodes) + 1)
                 = Append(ParentChain(pre.nodes, x, NodesLen(pre.nodes) + 1),
                          Unwrap(call.ret))

\* C14 witness: a new root was inserted over a tree in which some node was
\* already below the root.
ParentChainAcyclicWitness ==
    /\ IsInsertAsRoot /\ call.res = "Ok"
    /\ \E x \in Occupied(pre.nodes) :
          Len(ParentChain(nodes, x, NodesLen(nodes) + 1)) = MaxNodes

\* A sequence back to front.
Reverse(s) == [k \in 1..Len(s) |-> s[Len(s) + 1 - k]]

\* C15: a.next_sibling = b exactly when b.prev_sibling = a, linked siblings
\* have the same parent, and the walk along prev_sibling from p.last_child
\* visits p's children in the reverse of the next_sibling order, ending at
\* p.first_child.
SiblingListSymmetric ==
    /\ \A a \in Occupied(nodes), b \in Occupied(nodes) :
          /\ NodeAt(Tree, a).next_sibling = Some(b)
                <=> NodeAt(Tree, b).prev_sibling = Some(a)
          /\ NodeAt(Tree, a).next_sibling = Some(b)
                => NodeAt(Tree, a).parent = NodeAt(Tree, b).parent
    /\ \A a \in Occupied(nodes) :
          /\ NodeAt(Tree, a).next_sibling \subseteq Occupied(nodes)
          /\ NodeAt(Tree, a).prev_sibling \subseteq Occupied(nodes)
    /\ \A p \in Occupied(nodes) :
          LET back == WalkBack(nodes, NodeAt(Tree, p).last_child, NodesLen(nodes) + 1)
          IN  /\ back = Reverse(ChildSeq(nodes, p))
              /\ back # <<>> => NodeAt(Tree, p).first_child = Some(back[Len(back)])

\* C15 witness: some parent has two children, linked in both directions.
SiblingListSymmetricWitness ==
    \E p \in Occupied(nodes) :
        /\ Len(ChildSeq(nodes, p)) >= 2
        /\ Len(WalkBack(nodes, NodeAt(Tree, p).last_child, NodesLen(nodes) + 1)) >= 2

\* The handle steps of the last public call, from the tree it started on.
CallEvents ==
    CASE call.op = "insert" ->
           insert_events(pre, NewNode(Unwrap(call.data)),
                         IF call.behavior = "UnderNode"
                         THEN UnderNode(Unwrap(call.id)) ELSE AsRoot)
      [] call.op \in {"get", "get_mut", "ancestors"} ->
           validated_events(pre, Unwrap(call.id))
      [] OTHER -> <<>>

\* Whether step k of the events is preceded by a step of one of `kinds` on the
\* same handle.
Preceded(ev, k, kinds) ==
    \E j \in 1..(k - 1) : ev[j].kind \in kinds /\ ev[j].id = ev[k].id

Links(n) == n.parent \cup n.first_child \cup n.last_child
               \cup n.prev_sibling \cup n.next_sibling

\* C17: root() and every link stored in an occupied node name occupied slots,
\* and no unchecked access of insert_under_node or set_root meets an empty or
\* out-of-range slot (no insert ends in the expect's panic or beyond the slot
\* table).
NoDanglingLinks ==
    /\ root \subseteq Occupied(nodes)
    /\ \A i \in Occupied(nodes) : Links(NodeAt(Tree, i)) \subseteq Occupied(nodes)
    /\ call.op = "insert" => call.res \notin {"panic", "ub"}
    /\ \A k \in 1..Len(CallEvents) :
          CallEvents[k].kind = "unchecked" => CallEvents[k].id \in Occupied(nodes)

\* C17 witness: a full arena in which parent, child and sibling links are all
\* in use, right after an insert that followed the former last child's link.
NoDanglingLinksWitness ==
    /\ IsInsertUnder /\ call.res = "Ok"
    /\ Cardinality(Occupied(nodes)) = MaxNodes
    /\ \E i \in Occupied(nodes) : NodeAt(Tree, i).prev_sibling # None
    /\ \E i \in Occupied(nodes) : NodeAt(Tree, i).next_sibling # None

\* C18: a successful insert under p changes, of the nodes that existed, only
\* p.last_child (and p.first_child when p had no child) and the next_sibling
\* of p's former last child, and leaves the root pointer alone; a successful
\* insert as root changes only the root pointer and the former root's parent.
\* The new node takes a slot that held no node.
InsertFrame ==
    /\ (IsInsertUnder /\ call.res = "Ok") =>
          LET p    == Unwrap(call.id)
              c    == Unwrap(call.ret)
              old  == NodeAt(pre, p)
          IN  /\ root = pre.root
              /\ c \notin Occupied(pre.nodes)
              /\ NodeAt(Tree, p) =
                    [old EXCEPT !.last_child = Some(c),
                                !.first_child = IF old.first_child = None
                                                THEN Some(c) ELSE @]
              /\ \A i \in old.last_child :
                    NodeAt(Tree, i) = [NodeAt(pre, i) EXCEPT !.next_sibling = Some(c)]
              /\ \A i \in Occupied(pre.nodes) \ ({p} \cup old.last_child) :
                    nodes[i] = pre.nodes[i]
    /\ (IsInsertAsRoot /\ call.res = "Ok") =>
          LET n == Unwrap(call.ret)
          IN  /\ root = Some(n)
              /\ n \notin Occupied(pre.nodes)
              /\ \A i \in pre.root :
                    NodeAt(Tree, i) = [NodeAt(pre, i) EXCEPT !.parent = Some(n)]
              /\ \A i \in Occupied(pre.nodes) \ pre.root :
                    nodes[i] = pre.nodes[i]

\* C18 witness: an insert under p succeeded while the tree held a node that is
\* neither p nor p's former last child.
InsertFrameWitness ==
    /\ IsInsertUnder /\ call.res = "Ok"
    /\ Occupied(pre.nodes)
          \ ({Unwrap(call.id)} \cup NodeAt(pre, Unwrap(call.id)).last_child) # {}

\* C19: a successful insert returns a handle that named no occupied slot
\* before the call, the occupied slots are those of before and the new one,
\* and every handle valid before is still valid and holds the same data.
FreshStableHandles ==
    (call.op = "insert" /\ call.res = "Ok") =>
        /\ call.ret # None
        /\ Unwrap(call.ret) \notin Occupied(pre.nodes)
        /\ Occupied(nodes) = Occupied(pre.nodes) \cup call.ret
        /\ Cardinality(Occupied(nodes)) = Cardinality(Occupied(pre.nodes)) + 1
        /\ NodeAt(Tree, Unwrap(call.ret)).data = Unwrap(call.data)
        /\ \A i \in Occupied(pre.nodes) : NodeAt(Tree, i).data = NodeAt(pre, i).data

\* C19 witness: the insert that filled the arena, into a tree that held a node
\* with other data than the new node's.
FreshStableHandlesWitness ==
    /\ call.op = "insert" /\ call.res = "Ok"
    /\ Cardinality(Occupied(nodes)) = MaxNodes
    /\ \E i \in Occupied(pre.nodes) : Some(NodeAt(pre, i).data) # call.data

====
